---- MODULE Spec2Model ----
(***************************************************************************)
(* Model of src/main.js: the view-ready handler of the CSA pickups map,    *)
(* its debounced hover handler (hit-test -> highlight + detail panel) and  *)
(* its chip-selection handler (feature effect + card list).                *)
(*                                                                         *)
(* Strings are sequences of one-character strings, so that replace, join,  *)
(* split and SQL LIKE are computed character by character.                 *)
(* JavaScript values that one variable may hold in several types           *)
(* (objectId: undefined, a number or the default graphic object) are       *)
(* tagged records [kind, oid].                                             *)
(***************************************************************************)
EXTENDS Integers, Sequences, FiniteSets, TLC

VARIABLES
    pc,            \* position of the arcgisViewReadyChange handler (main.js 78-212)
    layerData,     \* the rows the feature service holds (environment)
    features,      \* const features (main.js 136)
    container,     \* children of .card-container (main.js 69)
    graphic,       \* feature.graphic, the detail panel's graphic (main.js 68, 143)
    highlight,     \* let highlight (main.js 148): {} when undefined, else {handle}
    objectId,      \* let objectId (main.js 148)
    active,        \* highlight handles of the layer view created and not removed
    handles,       \* number of highlight handles the layer view has handed out
    running,       \* debounce: the call whose callback is executing, <<>> when none
    pending,       \* debounce: the call waiting for the running one, <<>> when none
    moves,         \* number of arcgisViewPointerMove events delivered so far
    unhandled,     \* errors re-thrown from the catch handler (main.js 176)
    featureEffect, \* csaPickupsLayerView.featureEffect (main.js 193)
    last           \* the handler step taken last and its input

vars == <<pc, layerData, features, container, graphic, highlight, objectId,
          active, handles, running, pending, moves, unhandled, featureEffect, last>>

hoverVars == <<graphic, highlight, objectId, active, handles>>
debounceVars == <<running, pending>>
filterVars == <<container, featureEffect>>

-----------------------------------------------------------------------------
(* Bounds *)

\* pointer-move events delivered in one behaviour
MaxMoves == 3
\* graphics one hit-test returns (overlapping symbols under the pointer)
MaxHits == 1
\* entries of one raw Main_Products value
MaxProducts == 3
\* chips selected at once while the pointer moves
MaxSelected == 1

-----------------------------------------------------------------------------
(* JavaScript values *)

Undefined == [kind |-> "undefined", oid |-> -1]
Num(n) == [kind |-> "number", oid |-> n]
Graphic(n) == [kind |-> "graphic", oid |-> n]

\* const defaultGraphic = { popupTemplate: { content: "Hover over ..." } }
defaultGraphic == [kind |-> "defaultGraphic", oid |-> -1]

\* !v for the values newId can take: undefined and the number 0 are falsy
Not(v) == v.kind = "undefined" \/ (v.kind = "number" /\ v.oid = 0)

\* OBJECTID values of the rows of the layer
ObjectIds == {0, 1, 2}

\* csaPickupsLayer: popupTemplate is set at construction (main.js 64)
csaPickupsLayer == [popupTemplate |-> TRUE]

\* the record kept in last: the step, the call's number, the graphics its hit-test
\* returned, the error it failed with, the selected values of a chip event, and the
\* calls the step made on the layer view and the detail panel, in order
Step(op, seq, hits, error, filter, calls) ==
    [op |-> op, seq |-> seq, hits |-> hits, error |-> error, filter |-> filter, calls |-> calls]

-----------------------------------------------------------------------------
(* Sequences *)

RECURSIVE SeqsUpTo(_, _)
SeqsUpTo(S, n) ==
    IF n = 0 THEN {<<>>}
    ELSE LET shorter == SeqsUpTo(S, n - 1)
         IN  shorter \cup {Append(s, x) : s \in {t \in shorter : Len(t) = n - 1}, x \in S}

Range(s) == {s[i] : i \in 1..Len(s)}
NoRepeat(s) == \A i, j \in 1..Len(s) : i # j => s[i] # s[j]

-----------------------------------------------------------------------------
(* Strings: sequences of one-character strings *)

\* Array.prototype.join(sep)
RECURSIVE Join(_, _)
Join(arr, sep) ==
    IF Len(arr) = 0 THEN <<>>
    ELSE IF Len(arr) = 1 THEN arr[1]
    ELSE arr[1] \o sep \o Join(Tail(arr), sep)

\* String.prototype.replace(from, to) with a string pattern of one character:
\* only the first occurrence is replaced
RECURSIVE Replace(_, _, _)
Replace(s, from, to) ==
    IF s = <<>> THEN <<>>
    ELSE IF s[1] = from THEN <<to>> \o Tail(s)
    ELSE <<s[1]>> \o Replace(Tail(s), from, to)

\* Array.prototype.includes(x)
Includes(arr, x) == \E i \in 1..Len(arr) : arr[i] = x

CommaSpace == <<",", " ">>

\* SQL LIKE as the layer view evaluates a where clause: % matches any run of
\* characters, _ matches exactly one character
RECURSIVE Like(_, _)
Like(s, p) ==
    IF p = <<>> THEN s = <<>>
    ELSE IF p[1] = "%" THEN Like(s, Tail(p)) \/ (s # <<>> /\ Like(Tail(s), p))
    ELSE s # <<>> /\ (p[1] = "_" \/ p[1] = s[1]) /\ Like(Tail(s), Tail(p))

-----------------------------------------------------------------------------
(* The rows of the feature service *)

Null == [kind |-> "null", str |-> <<>>]
Str(s) == [kind |-> "string", str |-> s]

\* product names that occur in Main_Products values
Categories == {<<"a">>, <<"b">>, <<"c", " ", "d">>}

\* values of the Main_Products field: NULL, or product names joined by ", "
RawFields == {Null} \cup {Str(Join(ps, CommaSpace)) : ps \in SeqsUpTo(Categories, MaxProducts)}

\* the rows with Status = 'Active' (the rows the query of main.js 122 returns)
SampleRows == <<[OBJECTID |-> 0, Main_Products |-> Str(Join(<<<<"a">>, <<"c", " ", "d">>, <<"b">>>>, CommaSpace))],
                [OBJECTID |-> 1, Main_Products |-> Str(<<"a">>)],
                [OBJECTID |-> 2, Main_Products |-> Null]>>

AllRows == {<<[OBJECTID |-> 1, Main_Products |-> r1], [OBJECTID |-> 2, Main_Products |-> r2]>> :
              r1 \in RawFields, r2 \in RawFields}

-----------------------------------------------------------------------------
(* list-view/list-view.js: imported by main.js 30 *)

\* String.prototype.trim on the blanks around one entry
RECURSIVE TrimLeft(_)
TrimLeft(s) == IF s # <<>> /\ s[1] = " " THEN TrimLeft(Tail(s)) ELSE s

RECURSIVE TrimRight(_)
TrimRight(s) ==
    IF s # <<>> /\ s[Len(s)] = " " THEN TrimRight(SubSeq(s, 1, Len(s) - 1)) ELSE s

Trim(s) == TrimRight(TrimLeft(s))

\* String.prototype.split(","): the pieces between the commas
RECURSIVE Split(_, _)
Split(s, piece) ==
    IF s = <<>> THEN <<piece>>
    ELSE IF s[1] = "," THEN <<piece>> \o Split(Tail(s), <<>>)
    ELSE Split(Tail(s), Append(piece, s[1]))

\* categorizeProducts: the raw products field split and cleaned into the category
\* list; a missing field gives the empty list, and no entry is empty or blank
NonBlank(s) == s # <<>>
TrimAll(arr) == [i \in 1..Len(arr) |-> Trim(arr[i])]
categorizeProducts(raw) ==
    IF raw.kind # "string" THEN <<>>
    ELSE SelectSeq(TrimAll(Split(raw.str, <<>>)), NonBlank)

\* normalizeFeatureData: one Feature Record per row of the feature set, in order
normalizeFeatureData(featureSet) ==
    [i \in 1..Len(featureSet) |->
        [id |-> featureSet[i].OBJECTID,
         rawProducts |-> featureSet[i].Main_Products,
         products |-> categorizeProducts(featureSet[i].Main_Products)]]

\* nodes of the card container
TextNode == [node |-> "text", id |-> -1]
Card(f) == [node |-> "card", id |-> f.id]

\* displayCard: appends the record's card to the card container
displayCard(children, f) == Append(children, Card(f))

\* features.forEach(feature => displayCard(feature)): one card per record, in order
RECURSIVE DisplayCards(_, _)
DisplayCards(children, fs) ==
    IF fs = <<>> THEN children
    ELSE DisplayCards(displayCard(children, fs[1]), Tail(fs))

-----------------------------------------------------------------------------
(* calciteChipGroupSelect listener, main.js 181-211 *)

\* variant: the two listeners registered at the start of the handler, before its awaits
ListeningFromStart(p) == p \in {"query", "layerView", "ready"}

\* main.js 172 and 181: the pointer-move and chip listeners are registered after
\* the awaits of main.js 122 and 146, so they exist only from there on
Listening(p) == p = "ready"

\* values of the chips of the chip group: the product names in the form the
\* listener compares them in (main.js 205)
ChipValues == {Replace(c, " ", "_") : c \in Categories}

\* event.target.selectedItems.map(s => s.value): distinct chips in selection order
Selections == {s \in SeqsUpTo(ChipValues, Cardinality(ChipValues)) : NoRepeat(s)}

\* the selections of at most MaxSelected chips
FewSelections == {s \in Selections : Len(s) <= MaxSelected}

\* where: "Main_Products LIKE '%" + productFilter.join(", ") + "%'"
featureFilter(productFilter) ==
    [set |-> TRUE, like |-> <<"%">> \o Join(productFilter, CommaSpace) \o <<"%">>]

NoEffect == [set |-> FALSE, like |-> <<>>]

\* isMatch of main.js 203-206 (Array.prototype.filter is SelectSeq)
isMatch(feature, productFilter) ==
    LET selected(product) == Includes(productFilter, Replace(product, " ", "_"))
    IN  Len(SelectSeq(feature.products, selected)) = Len(productFilter)

\* the layer view's test of one row against the feature effect's filter
Included(row, effect) ==
    effect.set => (row.Main_Products.kind = "string" /\ Like(row.Main_Products.str, effect.like))

\* variant: a listener that also puts the default graphic back
ChipSelectResetsPanel(productFilter) ==
    /\ Listening(pc)
    /\ LET keep(f) == isMatch(f, productFilter)
       IN  container' = DisplayCards(<<TextNode>>, SelectSeq(features, keep))
    /\ featureEffect' = featureFilter(productFilter)
    /\ graphic' = defaultGraphic
    /\ last' = Step("chip", 0, <<>>, "", productFilter, <<>>)
    /\ UNCHANGED <<pc, layerData, features, highlight, objectId, active, handles,
                   debounceVars, moves, unhandled>>

\* a calciteChipGroupSelect event once the listener of main.js 181 is registered
ChipSelect(productFilter) ==
    /\ Listening(pc)
    /\ LET keep(f) == isMatch(f, productFilter)
       IN  container' = DisplayCards(<<TextNode>>, SelectSeq(features, keep))
    /\ featureEffect' = featureFilter(productFilter)
    /\ last' = Step("chip", 0, <<>>, "", productFilter, <<>>)
    /\ UNCHANGED <<pc, layerData, features, hoverVars, debounceVars, moves, unhandled>>

-----------------------------------------------------------------------------
(* Hover: main.js 148-179 *)

\* the pointer positions of one event: the graphics under the pointer, topmost first
HitLists == {s \in SeqsUpTo(ObjectIds, MaxHits) : NoRepeat(s)}

\* mapElement.hitTest(event, { include: csaPickupsLayer }) when it resolves
hitTestOf(event) ==
    [results |-> [i \in 1..Len(event.hits) |->
        [graphic |-> [attributes |-> [OBJECTID |-> event.hits[i]], layer |-> csaPickupsLayer]]]]

\* promiseUtils.isAbortError(error)
isAbortError(error) == error.name = "AbortError"

\* names of the errors a hit-test promise can reject with
ErrorNames == {"AbortError", "Error"}

\* variant: a catch handler that throws every error again
CatchThrowsAll(thrown, error) == Append(thrown, error)

\* the catch handler of main.js 173-178: an error that is not an abort error is thrown again
Catch(thrown, error) == IF ~isAbortError(error) THEN Append(thrown, error) ELSE thrown

RemoveAt(s, i) == SubSeq(s, 1, i - 1) \o SubSeq(s, i + 1, Len(s))

\* variant: a debounce that keeps every waiting call instead of the latest only
CallQueuesAll(run, pend, call) ==
    [running |-> IF run = <<>> THEN <<call>> ELSE run,
     pending |-> IF run = <<>> THEN <<>> ELSE Append(pend, call),
     aborted |-> <<>>]

\* variant: no debounce, every call starts its callback at once
CallAtOnce(run, pend, call) ==
    [running |-> Append(run, call), pending |-> <<>>, aborted |-> <<>>]

\* promiseUtils.debounce, a call of the debounced function: the callback starts at once
\* when none is executing; otherwise the call waits, and the call that waited before
\* it is rejected with an abort error
DebounceCall(run, pend, call) ==
    [running |-> IF run = <<>> THEN <<call>> ELSE run,
     pending |-> IF run = <<>> THEN <<>> ELSE <<call>>,
     aborted |-> IF run = <<>> THEN <<>> ELSE pend]

\* promiseUtils.debounce, the executing callback settles: the waiting call starts
DebounceSettle(run, pend, i) ==
    [running |-> RemoveAt(run, i) \o pend, pending |-> <<>>]

\* highlight?.remove(): the calls made, and the highlights left on the layer view
RemoveCalls ==
    IF highlight = {} THEN <<>>
    ELSE <<[call |-> "remove", h |-> CHOOSE h \in highlight : TRUE]>>
AfterRemove == {a \in active : a.h \notin highlight}

\* main.js 156-159: the topmost result on a layer with a popup template, and its id
newIdOf(hitTest) ==
    LET hasPopup(result) == result.graphic.layer.popupTemplate
        results == SelectSeq(hitTest.results, hasPopup)
    IN  IF Len(results) > 0 THEN Num(results[1].graphic.attributes.OBJECTID)
        ELSE Undefined

\* variant: the no-result branch that leaves the detail panel as it is
ClearKeepsPanel ==
    [graphic |-> graphic, highlight |-> highlight, objectId |-> defaultGraphic,
     active |-> AfterRemove, handles |-> handles, calls |-> RemoveCalls]

\* variant: the no-result branch without highlight?.remove()
ClearKeepsHighlight ==
    [graphic |-> defaultGraphic, highlight |-> highlight, objectId |-> defaultGraphic,
     active |-> active, handles |-> handles,
     calls |-> <<[call |-> "graphic", h |-> 0]>>]

\* main.js 162-163: highlight?.remove(); objectId = feature.graphic = defaultGraphic
Clear ==
    [graphic |-> defaultGraphic, highlight |-> highlight, objectId |-> defaultGraphic,
     active |-> AfterRemove, handles |-> handles,
     calls |-> RemoveCalls \o <<[call |-> "graphic", h |-> 0]>>]

\* variant: the new-id branch without highlight?.remove()
SelectKeepsOld(newId) ==
    [graphic |-> Graphic(newId.oid), highlight |-> {handles + 1}, objectId |-> newId,
     active |-> active \cup {[h |-> handles + 1, oid |-> newId.oid]},
     handles |-> handles + 1,
     calls |-> <<[call |-> "graphic", h |-> 0], [call |-> "highlight", h |-> handles + 1]>>]

\* main.js 165-168: the old highlight is removed, then the new one is created
Select(newId) ==
    [graphic |-> Graphic(newId.oid), highlight |-> {handles + 1}, objectId |-> newId,
     active |-> AfterRemove \cup {[h |-> handles + 1, oid |-> newId.oid]},
     handles |-> handles + 1,
     calls |-> RemoveCalls \o <<[call |-> "graphic", h |-> 0],
                                [call |-> "highlight", h |-> handles + 1]>>]

\* nothing is assigned and nothing is called
Keep ==
    [graphic |-> graphic, highlight |-> highlight, objectId |-> objectId,
     active |-> active, handles |-> handles, calls |-> <<>>]

\* variant: the callback without the objectId !== newId test
UpdateAlways(hitTest) ==
    LET newId == newIdOf(hitTest)
    IN  IF Not(newId) THEN Clear ELSE Select(newId)

\* the callback of main.js 151-170 after its hit-test resolved (main.js 161-169)
debouncedGraphicUpdate(hitTest) ==
    LET newId == newIdOf(hitTest)
    IN  IF Not(newId) THEN Clear
        ELSE IF objectId # newId THEN Select(newId)
        ELSE Keep

\* an arcgisViewPointerMove event: the listener of main.js 172-179 calls the
\* debounced function; the call that is rejected goes to the catch handler
PointerMove(hits) ==
    /\ Listening(pc)
    /\ moves < MaxMoves
    /\ moves' = moves + 1
    /\ LET call == [seq |-> moves + 1, hits |-> hits]
           d == DebounceCall(running, pending, call)
       IN  /\ running' = d.running
           /\ pending' = d.pending
           /\ unhandled' = IF d.aborted = <<>> THEN unhandled
                           ELSE Catch(unhandled, [name |-> "AbortError"])
           /\ last' = Step("move", call.seq, hits, "", <<>>, <<>>)
    /\ UNCHANGED <<pc, layerData, features, hoverVars, filterVars>>

\* the hit-test of the i-th executing call resolves
HitTestDone(i) ==
    /\ i \in 1..Len(running)
    /\ LET u == debouncedGraphicUpdate(hitTestOf(running[i]))
           d == DebounceSettle(running, pending, i)
       IN  /\ graphic' = u.graphic
           /\ highlight' = u.highlight
           /\ objectId' = u.objectId
           /\ active' = u.active
           /\ handles' = u.handles
           /\ running' = d.running
           /\ pending' = d.pending
           /\ last' = Step("hit", running[i].seq, running[i].hits, "", <<>>, u.calls)
    /\ UNCHANGED <<pc, layerData, features, filterVars, moves, unhandled>>

\* the hit-test of the i-th executing call rejects: the await of main.js 152 throws,
\* the rest of the callback is skipped and the call's promise rejects
HitTestFail(i, name) ==
    /\ i \in 1..Len(running)
    /\ LET d == DebounceSettle(running, pending, i)
       IN  /\ running' = d.running
           /\ pending' = d.pending
    /\ unhandled' = Catch(unhandled, [name |-> name])
    /\ last' = Step("fail", running[i].seq, running[i].hits, name, <<>>, <<>>)
    /\ UNCHANGED <<pc, layerData, features, hoverVars, filterVars, moves>>

-----------------------------------------------------------------------------
(* arcgisViewReadyChange listener, main.js 78-146 *)

\* the event fires: the layer is added and the query of main.js 122 is issued
ViewReadyChange ==
    /\ pc = "start"
    /\ pc' = "query"
    /\ last' = Step("viewReady", 0, <<>>, "", <<>>, <<>>)
    /\ UNCHANGED <<layerData, features, hoverVars, debounceVars, filterVars, moves, unhandled>>

\* the query resolves: main.js 136-143, up to the await of main.js 146
QueryDone ==
    /\ pc = "query"
    /\ features' = normalizeFeatureData(layerData)
    /\ container' = DisplayCards(container, normalizeFeatureData(layerData))
    /\ graphic' = defaultGraphic
    /\ pc' = "layerView"
    /\ last' = Step("query", 0, <<>>, "", <<>>, <<>>)
    /\ UNCHANGED <<layerData, highlight, objectId, active, handles, debounceVars,
                   featureEffect, moves, unhandled>>

\* the layer view is ready: main.js 148-181 declares highlight and objectId and
\* registers the two listeners
LayerViewReady ==
    /\ pc = "layerView"
    /\ pc' = "ready"
    /\ last' = Step("layerView", 0, <<>>, "", <<>>, <<>>)
    /\ UNCHANGED <<layerData, features, hoverVars, debounceVars, filterVars, moves, unhandled>>

\* one of the awaits of main.js 122 and 146 rejects: the handler ends there and
\* registers no listener
SetupFails ==
    /\ pc \in {"query", "layerView"}
    /\ pc' = "failed"
    /\ last' = Step("setupFailed", 0, <<>>, "", <<>>, <<>>)
    /\ UNCHANGED <<layerData, features, hoverVars, debounceVars, filterVars, moves, unhandled>>

\* an arcgisViewPointerMove event before the listener of main.js 172 is registered:
\* no code runs
UnheardPointerMove(hits) ==
    /\ ~Listening(pc)
    /\ last' = Step("moveUnheard", 0, hits, "", <<>>, <<>>)
    /\ UNCHANGED <<pc, layerData, features, hoverVars, debounceVars, filterVars, moves, unhandled>>

\* a calciteChipGroupSelect event before the listener of main.js 181 is registered:
\* no code runs
UnheardChipSelect(productFilter) ==
    /\ ~Listening(pc)
    /\ last' = Step("chipUnheard", 0, <<>>, "", productFilter, <<>>)
    /\ UNCHANGED <<pc, layerData, features, hoverVars, debounceVars, filterVars, moves, unhandled>>

-----------------------------------------------------------------------------
(* Specifications *)

InitState ==
    /\ pc = "start"
    /\ features = <<>>
    /\ container = <<>>
    /\ graphic = Undefined
    /\ highlight = {}
    /\ objectId = Undefined
    /\ active = {}
    /\ handles = 0
    /\ running = <<>>
    /\ pending = <<>>
    /\ moves = 0
    /\ unhandled = <<>>
    /\ featureEffect = NoEffect
    /\ last = Step("init", 0, <<>>, "", <<>>, <<>>)

Init == layerData = SampleRows /\ InitState

Next ==
    \/ ViewReadyChange
    \/ QueryDone
    \/ LayerViewReady
    \/ \E hits \in HitLists : PointerMove(hits)
    \/ \E i \in 1..Len(running) : HitTestDone(i)
    \/ \E i \in 1..Len(running), name \in ErrorNames : HitTestFail(i, name)
    \/ \E productFilter \in FewSelections : ChipSelect(productFilter)
    \/ SetupFails
    \/ \E hits \in HitLists : UnheardPointerMove(hits)
    \/ \E productFilter \in FewSelections : UnheardChipSelect(productFilter)

Spec == Init /\ [][Next]_vars

\* the chip-selection handler over every content of the layer
FilterInit == layerData \in AllRows /\ InitState

FilterNext ==
    \/ ViewReadyChange
    \/ QueryDone
    \/ LayerViewReady
    \/ \E productFilter \in Selections : ChipSelect(productFilter)

FilterSpec == FilterInit /\ [][FilterNext]_vars

-----------------------------------------------------------------------------
(* Claims on the hover handler *)

\* the feature ids that carry an active highlight
ActiveIds == {a.oid : a \in active}

\* a hit-test result is eligible when its layer has a popup template; every result
\* is one of csaPickupsLayer
HasEligible(hits) == Len(hits) > 0 /\ csaPickupsLayer.popupTemplate
EligibleId(hits) == Num(hits[1])

\* C1: once the listeners are registered, the detail panel shows a feature and exactly
\* that feature carries the active highlight, or the panel shows the default graphic
\* and no highlight is active.
C1_PanelMatchesHighlight ==
    pc = "ready" =>
        \/ graphic.kind = "graphic" /\ ActiveIds = {graphic.oid}
        \/ graphic = defaultGraphic /\ active = {}

\* a second feature is selected after a first one, and a chip event has been handled
C1_Witness ==
    /\ graphic.kind = "graphic"
    /\ handles >= 2
    /\ featureEffect.set

\* C3: at most one highlight created by the hover handler is not yet removed.
C3_AtMostOneHighlight == Cardinality(active) <= 1

\* a highlight was created, removed, and another one created
C3_Witness == Cardinality(active) = 1 /\ handles >= 2 /\ last.op = "hit"

\* C4: at most one hit-test of the hover handler is in flight.
C4_OneHitTestInFlight == Len(running) <= 1

\* pointer-move events arrived while a hit-test was in flight
C4_Witness == Len(running) = 1 /\ pending # <<>> /\ moves >= 3

\* C5: a resolved hit-test whose eligible id equals the selected id removes no
\* highlight, creates none and does not assign the detail panel.
C5_SameIdNoOp ==
    [][(last'.op = "hit" /\ HasEligible(last'.hits) /\ objectId = EligibleId(last'.hits))
         => (UNCHANGED hoverVars /\ last'.calls = <<>>)]_vars

\* the same id was handled a second time: one highlight was created in all
C5_Witness ==
    /\ last.op = "hit"
    /\ HasEligible(last.hits)
    /\ last.calls = <<>>
    /\ objectId = EligibleId(last.hits)
    /\ handles = 1
    /\ active = {[h |-> 1, oid |-> objectId.oid]}

Held(run, pend) == {run[i].seq : i \in 1..Len(run)} \cup {pend[i].seq : i \in 1..Len(pend)}

C9_AbortSwallowedOthersRethrown ==
    [][/\ (last'.op = "move" /\ pending # <<>>)
            => (unhandled' = unhandled /\ UNCHANGED hoverVars)
       /\ (last'.op = "fail" /\ last'.error = "AbortError")
            => (unhandled' = unhandled /\ UNCHANGED hoverVars)
       /\ (last'.op = "fail" /\ last'.error # "AbortError")
            => (unhandled' = Append(unhandled, [name |-> last'.error]) /\ UNCHANGED hoverVars)]_vars

\* the second call was replaced while waiting (the third runs right after the
\* first), and the first call's hit-test failed with another error, which was thrown
C9_Witness ==
    /\ last.op = "fail"
    /\ last.seq = 1
    /\ unhandled = <<[name |-> "Error"]>>
    /\ Len(running) = 1
    /\ running[1].seq = 3

\* C10 as stated: a resolved hit-test whose eligible id differs from the selected id
\* removes the old highlight before it creates the new one, stores the new id and
\* shows that feature's graphic, for every id.
C10_DifferentIdSelects ==
    [][(last'.op = "hit" /\ HasEligible(last'.hits) /\ objectId # EligibleId(last'.hits))
         => LET id == last'.hits[1]
                new == [call |-> "highlight", h |-> handles']
            IN  /\ objectId' = Num(id)
                /\ graphic' = Graphic(id)
                /\ active' = {[h |-> handles', oid |-> id]}
                /\ handles' = handles + 1
                /\ last'.calls[Len(last'.calls)] = new
                /\ \A h \in highlight :
                     \E i \in 1..Len(last'.calls) : last'.calls[i] = [call |-> "remove", h |-> h]]_vars

-----------------------------------------------------------------------------
(* Claims on the chip-selection handler *)

\* the ids of the cards in the card container, in order
Cards == LET isCard(n) == n.node = "card"
             cards == SelectSeq(container, isCard)
         IN  [i \in 1..Len(cards) |-> cards[i].id]

Count(s, x) == Cardinality({i \in 1..Len(s) : s[i] = x})

\* the chip value that stands for a category
ChipOf(category) == Replace(category, " ", "_")

\* the record's category list contains every selected category
Superset(f, selected) ==
    \A i \in 1..Len(selected) : \E j \in 1..Len(f.products) : ChipOf(f.products[j]) = selected[i]

\* the raw products field matches one selected category
MatchesCategory(row, value) ==
    row.Main_Products.kind = "string" /\ Like(row.Main_Products.str, <<"%">> \o value \o <<"%">>)

\* C6 as stated: after a chip-selection event the card container holds one card for
\* each Feature Record whose category list contains every selected category, and no
\* other card.
C6_CardsAreSupersetRecords ==
    last.op = "chip" =>
        /\ \A i \in 1..Len(features) :
             Count(Cards, features[i].id) = IF Superset(features[i], last.filter) THEN 1 ELSE 0
        /\ \A i \in 1..Len(Cards) : \E j \in 1..Len(features) : features[j].id = Cards[i]

\* C7 as stated: the filter expression of a chip-selection event with selected
\* categories includes a feature exactly when its raw products field matches any one
\* of them.
C7_FilterMatchesAnySelected ==
    (last.op = "chip" /\ Len(last.filter) > 0) =>
        \A i \in 1..Len(layerData) :
            Included(layerData[i], featureEffect)
                <=> \E k \in 1..Len(last.filter) : MatchesCategory(layerData[i], last.filter[k])

\* C8 as stated: after a chip-selection event with nothing selected there is one card
\* for every Feature Record, and the filter expression includes every feature.
C8_EmptySelectionShowsAll ==
    (last.op = "chip" /\ last.filter = <<>>) =>
        /\ Cards = [i \in 1..Len(features) |-> features[i].id]
        /\ \A i \in 1..Len(layerData) : Included(layerData[i], featureEffect)

-----------------------------------------------------------------------------
(* Claims on the transitions of the hover handler *)

\* C11: a resolved hit-test with no eligible result removes the active highlight,
\* leaves no feature selected and shows the default graphic.
C11_NoResultClears ==
    [][(last'.op = "hit" /\ ~HasEligible(last'.hits))
         => /\ active' = {}
            /\ objectId' = defaultGraphic
            /\ graphic' = defaultGraphic
            /\ \A h \in highlight :
                 \E i \in 1..Len(last'.calls) : last'.calls[i] = [call |-> "remove", h |-> h]]_vars

\* a feature was highlighted, then a hit-test with no result cleared it
C11_Witness ==
    /\ last.op = "hit"
    /\ last.hits = <<>>
    /\ handles = 1
    /\ active = {}
    /\ graphic = defaultGraphic
    /\ \E i \in 1..Len(last.calls) : last.calls[i].call = "remove"

\* the state the transition rules prescribe for the hit-test result of one event:
\* no eligible result gives the default panel and no highlight, an eligible result
\* gives that feature selected, highlighted and shown
Prescribed(hits) ==
    IF HasEligible(hits)
    THEN objectId = EligibleId(hits) /\ graphic = Graphic(hits[1]) /\ ActiveIds = {hits[1]}
    ELSE objectId = defaultGraphic /\ graphic = defaultGraphic /\ active = {}

\* no call is executing or waiting
Quiet == running = <<>> /\ pending = <<>>

\* C12 as stated, its final result: once the call of the latest pointer-move event
\* has resolved and no call is left, the Highlight State and the detail panel are what
\* that event's hit-test result prescribes.
C12_LastWriterWins ==
    (Quiet /\ last.op = "hit" /\ last.seq = moves) => Prescribed(last.hits)
\* what holds of C12 in the model: the final result for every id but 0,
C12_LastWriterWinsButIdZero ==
    (Quiet /\ last.op = "hit" /\ last.seq = moves /\ (HasEligible(last.hits) => last.hits[1] # 0))
        => Prescribed(last.hits)

\* the call of the latest event is held from its arrival until its own hit-test settles,
C12_LatestCallNeverDropped ==
    [][/\ last'.op = "move" => moves' \in Held(running', pending')
       /\ (moves' = moves /\ moves \in Held(running, pending) /\ moves \notin Held(running', pending'))
            => (last'.op \in {"hit", "fail"} /\ last'.seq = moves)]_vars

\* and, every issued hit-test settling, the calls held run out
Settle ==
    \/ \E i \in 1..Len(running) : HitTestDone(i)
    \/ \E i \in 1..Len(running), name \in ErrorNames : HitTestFail(i, name)

FairSpec == Spec /\ WF_vars(Settle)

C12_CallsRunOut == (~Quiet) ~> Quiet
\* C14 as stated: with no feature selected after a transition to NoSelection, the
\* next resolved hit-test with an eligible result creates a highlight on that feature
\* and shows its graphic, whatever id was selected before.
C14_ReselectAfterClear ==
    [][(objectId = defaultGraphic /\ last'.op = "hit" /\ HasEligible(last'.hits))
         => /\ handles' = handles + 1
            /\ active' = {[h |-> handles', oid |-> last'.hits[1]]}
            /\ graphic' = Graphic(last'.hits[1])
            /\ objectId' = EligibleId(last'.hits)]_vars
\* what holds of C14 in the model: the same for every id but 0, which covers every id
\* that was selected before, since 0 is never selected
C14_ReselectButIdZero ==
    [][(objectId = defaultGraphic /\ last'.op = "hit" /\ HasEligible(last'.hits)
            /\ last'.hits[1] # 0)
         => /\ handles' = handles + 1
            /\ active' = {[h |-> handles', oid |-> last'.hits[1]]}
            /\ graphic' = Graphic(last'.hits[1])
            /\ objectId' = EligibleId(last'.hits)]_vars

-----------------------------------------------------------------------------
(* Claims on the two views of a chip selection *)

\* the ids of the rows the feature effect's filter includes
IncludedIds == {layerData[i].OBJECTID : i \in {j \in 1..Len(layerData) : Included(layerData[j], featureEffect)}}

\* C13 as stated: after a chip-selection event with one or more selected categories,
\* the records shown as cards are the features the feature effect's filter includes.
C13_CardsAgreeWithFilter ==
    (last.op = "chip" /\ Len(last.filter) >= 1) => Range(Cards) = IncludedIds

-----------------------------------------------------------------------------
(* Claims on what the handlers leave alone and on the order of the set-up *)

\* C15: a handled chip-selection event leaves the highlight handle, the stored
\* object id, the highlights of the layer view, the detail panel and the Feature
\* Records as they are; a pointer-move event and a settling hit-test leave the card
\* container and the feature effect as they are.
C15_HandlersKeepToTheirState ==
    [][/\ last'.op = "chip" => UNCHANGED <<hoverVars, features>>
       /\ last'.op \in {"move", "hit", "fail"} => UNCHANGED <<filterVars, features>>]_vars

\* a chip selection was handled while a feature was highlighted and shown
C15_Witness ==
    /\ last.op = "chip"
    /\ Len(last.filter) = 1
    /\ graphic.kind = "graphic"
    /\ active # {}

\* the program state other than the position of the view-ready handler's own steps
programVars == <<pc, layerData, features, hoverVars, debounceVars, filterVars, moves, unhandled>>

\* C16: a hit-test is issued and a pointer-move or chip event is handled only once
\* the query has resolved, the initial cards are in the container, the default
\* graphic is in the detail panel and the layer view is ready; an event that arrives
\* earlier changes no state.
C16_NothingBeforeSetUp ==
    /\ []((running # <<>> \/ pending # <<>> \/ moves > 0 \/ handles > 0 \/ featureEffect.set)
            => (pc = "ready" /\ features = normalizeFeatureData(layerData)))
    /\ [][/\ last'.op \in {"move", "hit", "fail", "chip"} => pc = "ready"
          /\ (pc # "ready" /\ pc' = "ready")
               => /\ features = normalizeFeatureData(layerData)
                  /\ Cards = [i \in 1..Len(features) |-> features[i].id]
                  /\ graphic = defaultGraphic
          /\ last'.op \in {"moveUnheard", "chipUnheard"} => UNCHANGED programVars]_vars

\* a chip event arrived while the handler waited for the layer view, and nothing moved
C16_Witness ==
    /\ last.op = "chipUnheard"
    /\ Len(last.filter) = 1
    /\ pc = "layerView"
    /\ graphic = defaultGraphic
    /\ featureEffect = NoEffect
    /\ Cards = [i \in 1..Len(features) |-> features[i].id]

====
